---- MODULE Spec2Model ----
(***************************************************************************)
(* A model of src/nikkei_scraper.py: NikkeiDataFetcher.run() and the       *)
(* functions it calls, as a state machine over the store document          *)
(* (data/nikkei_data.json), the local calendar date and, per invocation,   *)
(* the position in run() and its local variables.                          *)
(*                                                                         *)
(* Units.  Prices, per, pbr, yield_rate, dividend_yield and change are     *)
(* integers counting hundredths (round(x, 2) of the code keeps two         *)
(* decimals).  The provider's Close is an integer counting thousandths, so *)
(* that round(Close, 2) has something to round.  Bond yields count         *)
(* thousandths (1.485 is 1485, 1.5 is 1500).  A date is a day number; day  *)
(* d has Python weekday d % 7 (0 is Monday); strftime('%Y-%m-%d') is       *)
(* injective on dates, so two date strings are equal exactly when the day  *)
(* numbers are.                                                            *)
(***************************************************************************)
EXTENDS Integers, Sequences, FiniteSets, TLC

(***************************************************************************)
(* Program constants.                                                      *)
(***************************************************************************)
\* existing_data[:60]
RETENTION == 60
\* calculate_metrics(self, price, eps=2500, bps=27500, dividend=900)
EPS == 2500
BPS == 27500
DIVIDEND == 900
\* return 1.5  (thousandths)
FALLBACK_YIELD == 1500
\* return 1.485  (thousandths), the mock value of both stub sources
MOCK_YIELD == 1485
\* latest['Volume'] / 1000000
VOLUME_UNIT == 1000000
\* date.weekday() < 5
WEEKDAYS == 5
\* response.status_code == 200
HTTP_OK == 200
\* the value dict.get() stands for when the key is missing
NoKey == -1

(***************************************************************************)
(* Bounds of the model.                                                    *)
(***************************************************************************)
\* the first day of the calendar window (73 is a Thursday: 73 % 7 = 3)
FirstDay == 73
\* the number of days of the calendar window of Spec and ConcSpec
NumDays == 4
\* the number of days of the calendar window of RetentionSpec
RetDays == 90

Procs == {1, 2}
Days == FirstDay .. (FirstDay + NumDays - 1)
RetLastDay == FirstDay + RetDays - 1

VARIABLES
    store,          \* the store document data/nikkei_data.json
    today,          \* the local calendar date
    pc,             \* per invocation: the position in run()
    env,            \* per invocation: the collaborators' responses
    now,            \* per invocation: now / today_str
    existing_data,  \* per invocation: existing_data
    nikkei_data,    \* per invocation: nikkei_data
    bond_yield,     \* per invocation: bond_yield
    dirty,          \* per invocation: another writer wrote while the file was open
    exit,           \* per invocation: how the run ended
    storeAtStart,   \* per invocation: the store document when the run began
    loaded,         \* per invocation: what load_existing_data() returned
    calls,          \* per invocation: calls made to the collaborators
    second,         \* the run repeats the previous one (same date, same responses)
    prevStore,      \* the store document after the previous run, when second
    recording,      \* whether runDates is kept (RetentionSpec)
    runDates,       \* when recording: dates of the successful runs, newest first
    srcOut,         \* YieldSpec: the outcome of each source strategy
    yres,           \* YieldSpec: what get_bond_yield() did
    mprice,         \* MetricsSpec: the price given to calculate_metrics()
    mres            \* MetricsSpec: what calculate_metrics() returned

procVars == <<pc, env, now, existing_data, nikkei_data, bond_yield, dirty,
              exit, storeAtStart, loaded, calls>>
coreVars == <<store, today, procVars, second, prevStore>>
yieldVars == <<srcOut, yres>>
metricVars == <<mprice, mres>>
vars == <<coreVars, recording, runDates, yieldVars, metricVars>>

(***************************************************************************)
(* Values.                                                                 *)
(***************************************************************************)
\* A store document: absent, unparsable ("corrupt": also a file opened for
\* writing and not yet, or only partly, written), a JSON array of objects
\* ("list"), the empty JSON object ("emptymap") or any other readable JSON
\* value, on which item.get() or the iteration raises ("scalar").
Doc(kind, items) == [kind |-> kind, items |-> items]
AbsentDoc == Doc("absent", <<>>)
CorruptDoc == Doc("corrupt", <<>>)
ListDoc(items) == Doc("list", items)

Entry(d, p, v, y, m, c) ==
    [date |-> d, price |-> p, volume |-> v, bond_yield |-> y,
     per |-> m.per, pbr |-> m.pbr, eps |-> m.eps, bps |-> m.bps,
     yield_rate |-> m.yield_rate, dividend_yield |-> m.dividend_yield,
     change |-> c]

NoQuote == [price |-> NoKey, volume |-> NoKey, date |-> NoKey]

Dates(items) == [i \in 1 .. Len(items) |-> items[i].date]

(***************************************************************************)
(* The functions run() calls.                                              *)
(***************************************************************************)
\* a variant of is_business_day that counts Saturday as a business day
is_business_day_SixDays(d) == (d % 7) < WEEKDAYS + 1

\* is_business_day: date.weekday() < 5
is_business_day(d) == (d % 7) < WEEKDAYS

\* round(n / d) for n >= 0, d > 0, ties to the even neighbour as Python's
\* round() does.
RoundHalfEven(n, d) ==
    LET q == n \div d
        r == n % d
    IN  IF 2 * r > d THEN q + 1
        ELSE IF 2 * r < d THEN q
        ELSE IF q % 2 = 0 THEN q ELSE q + 1

\* The quotient and remainder of (a * 10^k) / d by long division, so that no
\* intermediate value leaves the 32-bit integers.
RECURSIVE LongDiv(_, _, _)
LongDiv(a, k, d) ==
    IF k = 0 THEN [q |-> a \div d, r |-> a % d]
    ELSE LET prev == LongDiv(a, k - 1, d)
         IN  [q |-> prev.q * 10 + ((prev.r * 10) \div d),
              r |-> (prev.r * 10) % d]

\* round((a * 10^k) / d), ties to even
RoundScaled(a, k, d) ==
    LET x == LongDiv(a, k, d)
    IN  IF 2 * x.r > d THEN x.q + 1
        ELSE IF 2 * x.r < d THEN x.q
        ELSE IF x.q % 2 = 0 THEN x.q ELSE x.q + 1

\* A response of the quote provider to history(period="5d"): it raises, it is
\* empty, or its last row has Close (thousandths), Volume (NoKey: not a
\* number) and a date.
QuoteResponse(kind, close, volume, date) ==
    [kind |-> kind, close |-> close, volume |-> volume, date |-> date]

\* a variant of get_nikkei_price that answers an empty or failed request with
\* a quote of 0 instead of None
get_nikkei_price_ZeroQuote(resp) ==
    IF resp.kind # "rows"
    THEN [price |-> 0, volume |-> 0, date |-> resp.date]
    ELSE IF resp.volume = NoKey THEN NoQuote
    ELSE [price |-> RoundHalfEven(resp.close, 10),
          volume |-> resp.volume \div VOLUME_UNIT,
          date |-> resp.date]

\* get_nikkei_price: None (NoQuote) when the provider raises, returns no rows,
\* or the conversion of the last row raises; else price rounded to two
\* decimals, volume in millions truncated, and the row's date.
get_nikkei_price(resp) ==
    IF resp.kind # "rows" THEN NoQuote
    ELSE IF resp.volume = NoKey THEN NoQuote
    ELSE [price |-> RoundHalfEven(resp.close, 10),
          volume |-> resp.volume \div VOLUME_UNIT,
          date |-> resp.date]

\* The outcome of one source strategy: it raises, returns None, or returns a
\* number (thousandths).
Raises == [kind |-> "raise", value |-> 0]
None == [kind |-> "none", value |-> 0]
Value(v) == [kind |-> "value", value |-> v]

\* `if yield_rate:` -- Python truthiness of what the strategy returned
Truthy(o) == o.kind = "value" /\ o.value # 0

\* _get_yield_from_investing: the mock value on a 200 response, None on any
\* other status and on an exception of the request.
get_yield_from_investing(net) ==
    IF net.kind = "response" /\ net.status = HTTP_OK
    THEN Value(MOCK_YIELD) ELSE None

\* _get_yield_from_tradingview
get_yield_from_tradingview == None

\* a variant of _get_yield_fallback that, like the TradingView stub, returns
\* None
get_yield_fallback_None == None

\* _get_yield_fallback
get_yield_fallback == Value(MOCK_YIELD)

\* sources = [...] of get_bond_yield, as the outcomes the three shipped
\* strategies have for a given outcome of the network request
ShippedSources(net) ==
    <<get_yield_from_investing(net), get_yield_from_tradingview,
      get_yield_fallback>>

\* What get_bond_yield() did: the value returned, the number of strategies
\* called, the index of the strategy whose value was returned (0: the final
\* fallback), and whether an exception left the function.
YieldResult(value, invoked, won) ==
    [value |-> value, invoked |-> invoked, won |-> won, raised |-> FALSE]

\* a variant of the loop without the try/except: a strategy that raises ends
\* get_bond_yield with its exception
RECURSIVE TrySources_NoCatch(_, _)
TrySources_NoCatch(outs, i) ==
    IF i > Len(outs) THEN YieldResult(FALLBACK_YIELD, Len(outs), 0)
    ELSE IF outs[i].kind = "raise"
         THEN [value |-> NoKey, invoked |-> i, won |-> 0, raised |-> TRUE]
    ELSE IF Truthy(outs[i]) THEN YieldResult(outs[i].value, i, i)
    ELSE TrySources_NoCatch(outs, i + 1)

\* The for loop of get_bond_yield from the i-th source on.  `except Exception:
\* continue` takes a strategy that raises to the next one; `if yield_rate:`
\* returns what is truthy; after the loop, `return 1.5`.
RECURSIVE TrySources(_, _)
TrySources(outs, i) ==
    IF i > Len(outs) THEN YieldResult(FALLBACK_YIELD, Len(outs), 0)
    ELSE IF outs[i].kind = "raise" THEN TrySources(outs, i + 1)
    ELSE IF Truthy(outs[i]) THEN YieldResult(outs[i].value, i, i)
    ELSE TrySources(outs, i + 1)

get_bond_yield(outs) == TrySources(outs, 1)

\* a variant of load_existing_data that catches nothing: a document that does
\* not parse comes back as it is, and what uses it raises
load_existing_data_NoCatch(doc) ==
    IF doc.kind = "absent" THEN ListDoc(<<>>) ELSE doc

\* load_existing_data: [] when the file is absent or json.load raises, else
\* whatever document the file holds.
load_existing_data(doc) ==
    IF doc.kind \in {"absent", "corrupt"} THEN ListDoc(<<>>) ELSE doc

\* what stands for the metrics before calculate_metrics() has returned
NoMetrics ==
    [per |-> NoKey, pbr |-> NoKey, eps |-> NoKey, bps |-> NoKey,
     yield_rate |-> NoKey, dividend_yield |-> NoKey]

\* a variant of calculate_metrics that cuts the quotients to two decimals
\* instead of rounding them
calculate_metrics_Truncates(price) ==
    [per |-> price \div EPS,
     pbr |-> price \div BPS,
     eps |-> EPS,
     bps |-> BPS,
     yield_rate |-> LongDiv(EPS, 6, price).q,
     dividend_yield |-> LongDiv(DIVIDEND, 6, price).q]

\* calculate_metrics raises ZeroDivisionError exactly when price is 0
MetricsRaise(price) == price = 0

\* calculate_metrics(price), price > 0 in hundredths; every result in
\* hundredths except eps and bps, which pass through.
calculate_metrics(price) ==
    [per |-> RoundHalfEven(price, EPS),
     pbr |-> RoundHalfEven(price, BPS),
     eps |-> EPS,
     bps |-> BPS,
     yield_rate |-> RoundScaled(EPS, 6, price),
     dividend_yield |-> RoundScaled(DIVIDEND, 6, price)]

\* a variant of the check that compares the stored date strings with the
\* datetime `now` itself, which equals none of them
HasDate_NeverEqual(items, d) == FALSE

\* a variant of the check that looks at the newest entry only
HasDate_HeadOnly(items, d) == items # <<>> /\ items[1].date = d

\* any(item.get('date') == today_str for item in existing_data)
HasDate(items, d) == \E i \in 1 .. Len(items) : items[i].date = d

\* a variant of the truncation that keeps the last 60 entries,
\* existing_data[-60:]
Truncate_KeepsOldest(items) ==
    IF Len(items) > RETENTION
    THEN SubSeq(items, Len(items) - RETENTION + 1, Len(items)) ELSE items

\* existing_data[:60]
Truncate(items) ==
    IF Len(items) > RETENTION THEN SubSeq(items, 1, RETENTION) ELSE items

\* a variant of the change with the operands exchanged: the old price minus
\* the new one
Change_Reversed(items, price) ==
    IF items = <<>> THEN 0
    ELSE IF items[1].price = NoKey THEN 0
    ELSE items[1].price - price

\* the change of the new entry: 0 for an empty history, else the new price
\* minus existing_data[0].get('price', new price)
Change(items, price) ==
    IF items = <<>> THEN 0
    ELSE IF items[1].price = NoKey THEN 0
    ELSE price - items[1].price

\* a variant of new_entry dated with the date of the quote record,
\* nikkei_data['date']
NewEntry_QuoteDate(d, q, y, items) ==
    Entry(q.date, q.price, q.volume, y, calculate_metrics(q.price),
          Change(items, q.price))

\* new_entry of run()
NewEntry(d, q, y, items) ==
    Entry(d, q.price, q.volume, y, calculate_metrics(q.price),
          Change(items, q.price))

(***************************************************************************)
(* The environment: what the collaborators answer during one run.          *)
(***************************************************************************)
\* The provider's answers tried on day d: it raises; it has no rows; its last
\* row is of the day before (39500.000); of the day itself (40000.125); has a
\* Close of 0; has a Volume that is not a number.
QuoteRaises == QuoteResponse("raise", 0, 0, NoKey)
QuoteEmpty == QuoteResponse("empty", 0, 0, NoKey)
QuoteA(d) == QuoteResponse("rows", 39500000, 1234567890, d - 1)
QuoteB(d) == QuoteResponse("rows", 40000125, 987654321, d)
QuoteZero(d) == QuoteResponse("rows", 0, 0, d)
QuoteNaN(d) == QuoteResponse("rows", 39500000, NoKey, d)

GoodQuotes(d) == {QuoteA(d), QuoteB(d)}
Quotes(d) ==
    GoodQuotes(d) \cup {QuoteRaises, QuoteEmpty, QuoteZero(d), QuoteNaN(d)}

Env(mkdir, quote, write) == [mkdir |-> mkdir, quote |-> quote, write |-> write]

\* The responses a run on day d may meet.  A response the run cannot reach
\* (after a failed makedirs, after a quote that ends the run) is fixed, since
\* it is never read.
Envs(d) ==
    {Env("fail", QuoteRaises, "ok")}
    \cup {Env("ok", q, "ok") : q \in Quotes(d)}
    \cup {Env("ok", q, w) : q \in GoodQuotes(d), w \in {"fail_open", "fail_dump"}}

\* The outcomes of requests.get() in _get_yield_from_investing
NetOutcomes ==
    {[kind |-> "response", status |-> HTTP_OK],
     [kind |-> "response", status |-> 503],
     [kind |-> "exception", status |-> 0]}

\* no request made yet
NoNet == [kind |-> "none", status |-> 0]

\* net: the outcome of the request of _get_yield_from_investing in this run
NoCalls ==
    [mkdir |-> 0, quote |-> 0, yield |-> 0, open |-> 0, dump |-> 0,
     net |-> NoNet]

\* Store documents a run may find.
OldEntry ==
    Entry(FirstDay - 1, 3900000, 1100, MOCK_YIELD, calculate_metrics(3900000), 0)
BareEntry ==
    [OldEntry EXCEPT !.date = NoKey, !.price = NoKey]
\* a history at the retention bound: the 60 days before the window
FullHistory ==
    [i \in 1 .. RETENTION |-> [OldEntry EXCEPT !.date = FirstDay - i]]
InitStores ==
    {AbsentDoc, CorruptDoc, Doc("scalar", <<>>), Doc("emptymap", <<>>),
     ListDoc(<<>>), ListDoc(<<OldEntry>>), ListDoc(<<BareEntry>>),
     ListDoc(FullHistory)}

Running(p) == pc[p] \notin {"idle", "done", "crashed"}
Ended(p) == pc[p] \in {"done", "crashed"}

(***************************************************************************)
(* Initial states.                                                         *)
(***************************************************************************)
ProcInit ==
    /\ pc = [p \in Procs |-> "idle"]
    /\ env = [p \in Procs |-> Env("ok", QuoteRaises, "ok")]
    /\ now = [p \in Procs |-> NoKey]
    /\ existing_data = [p \in Procs |-> ListDoc(<<>>)]
    /\ nikkei_data = [p \in Procs |-> NoQuote]
    /\ bond_yield = [p \in Procs |-> NoKey]
    /\ dirty = [p \in Procs |-> FALSE]
    /\ exit = [p \in Procs |-> "none"]
    /\ storeAtStart = [p \in Procs |-> AbsentDoc]
    /\ loaded = [p \in Procs |-> ListDoc(<<>>)]
    /\ calls = [p \in Procs |-> NoCalls]

GhostInit ==
    /\ second = FALSE
    /\ prevStore = AbsentDoc
    /\ runDates = <<>>
    /\ recording = FALSE
    /\ yres = YieldResult(NoKey, 0, 0)
    /\ mprice = NoKey
    /\ mres = NoMetrics

Init ==
    /\ store \in InitStores
    /\ today \in Days
    /\ ProcInit
    /\ GhostInit
    /\ srcOut = ShippedSources([kind |-> "response", status |-> HTTP_OK])

(***************************************************************************)
(* run(), step by step.                                                    *)
(***************************************************************************)
\* A run begins: a fresh process with fresh locals.
Begin(p, e) ==
    /\ pc' = [pc EXCEPT ![p] = "ensure_dir"]
    /\ env' = [env EXCEPT ![p] = e]
    /\ now' = [now EXCEPT ![p] = NoKey]
    /\ existing_data' = [existing_data EXCEPT ![p] = ListDoc(<<>>)]
    /\ nikkei_data' = [nikkei_data EXCEPT ![p] = NoQuote]
    /\ bond_yield' = [bond_yield EXCEPT ![p] = NoKey]
    /\ dirty' = [dirty EXCEPT ![p] = FALSE]
    /\ exit' = [exit EXCEPT ![p] = "none"]
    /\ storeAtStart' = [storeAtStart EXCEPT ![p] = store]
    /\ loaded' = [loaded EXCEPT ![p] = ListDoc(<<>>)]
    /\ calls' = [calls EXCEPT ![p] = NoCalls]
    /\ UNCHANGED <<store, today>>

\* fetcher.run() is invoked.
Start(p, e) ==
    /\ ~Running(p)
    /\ Begin(p, e)
    /\ second' = FALSE
    /\ prevStore' = AbsentDoc
    /\ UNCHANGED <<recording, runDates, yieldVars, metricVars>>

\* fetcher.run() is invoked again on the same date, the collaborators
\* answering as they did in the run that just ended.
Restart(p) ==
    /\ Ended(p)
    /\ Begin(p, env[p])
    /\ second' = TRUE
    /\ prevStore' = store
    /\ UNCHANGED <<recording, runDates, yieldVars, metricVars>>

\* self.ensure_data_directory(): os.makedirs may raise, and nothing catches it
EnsureDir(p) ==
    /\ pc[p] = "ensure_dir"
    /\ calls' = [calls EXCEPT ![p].mkdir = 1]
    /\ IF env[p].mkdir = "fail"
       THEN /\ pc' = [pc EXCEPT ![p] = "crashed"]
            /\ exit' = [exit EXCEPT ![p] = "crashed"]
       ELSE /\ pc' = [pc EXCEPT ![p] = "check_day"]
            /\ UNCHANGED exit
    /\ UNCHANGED <<store, today, env, now, existing_data, nikkei_data,
                   bond_yield, dirty, storeAtStart, loaded, second, prevStore>>
    /\ UNCHANGED <<recording, runDates, yieldVars, metricVars>>

\* now = datetime.now(); if not self.is_business_day(now): return
CheckBusinessDay(p) ==
    /\ pc[p] = "check_day"
    /\ now' = [now EXCEPT ![p] = today]
    /\ IF is_business_day(today)
       THEN /\ pc' = [pc EXCEPT ![p] = "load"]
            /\ UNCHANGED exit
       ELSE /\ pc' = [pc EXCEPT ![p] = "done"]
            /\ exit' = [exit EXCEPT ![p] = "non_business"]
    /\ UNCHANGED <<store, today, env, existing_data, nikkei_data, bond_yield,
                   dirty, storeAtStart, loaded, calls, second, prevStore>>
    /\ UNCHANGED <<recording, runDates, yieldVars, metricVars>>

\* existing_data = self.load_existing_data()
Load(p) ==
    /\ pc[p] = "load"
    /\ existing_data' = [existing_data EXCEPT ![p] = load_existing_data(store)]
    /\ loaded' = [loaded EXCEPT ![p] = load_existing_data(store)]
    /\ pc' = [pc EXCEPT ![p] = "check_updated"]
    /\ UNCHANGED <<store, today, env, now, nikkei_data, bond_yield, dirty,
                   exit, storeAtStart, calls, second, prevStore>>
    /\ UNCHANGED <<recording, runDates, yieldVars, metricVars>>

\* if any(item.get('date') == today_str for item in existing_data): return
\* A document that is no array of objects raises here, except the empty
\* object, over which the iteration is empty.
CheckAlreadyUpdated(p) ==
    /\ pc[p] = "check_updated"
    /\ IF existing_data[p].kind = "scalar"
       THEN /\ pc' = [pc EXCEPT ![p] = "crashed"]
            /\ exit' = [exit EXCEPT ![p] = "crashed"]
       ELSE IF HasDate(existing_data[p].items, now[p])
       THEN /\ pc' = [pc EXCEPT ![p] = "done"]
            /\ exit' = [exit EXCEPT ![p] = "already"]
       ELSE /\ pc' = [pc EXCEPT ![p] = "fetch_quote"]
            /\ UNCHANGED exit
    /\ UNCHANGED <<store, today, env, now, existing_data, nikkei_data,
                   bond_yield, dirty, storeAtStart, loaded, calls, second,
                   prevStore>>
    /\ UNCHANGED <<recording, runDates, yieldVars, metricVars>>

\* nikkei_data = self.get_nikkei_price(); if not nikkei_data: return
FetchQuote(p) ==
    /\ pc[p] = "fetch_quote"
    /\ calls' = [calls EXCEPT ![p].quote = @ + 1]
    /\ nikkei_data' = [nikkei_data EXCEPT ![p] = get_nikkei_price(env[p].quote)]
    /\ IF get_nikkei_price(env[p].quote) = NoQuote
       THEN /\ pc' = [pc EXCEPT ![p] = "done"]
            /\ exit' = [exit EXCEPT ![p] = "no_quote"]
       ELSE /\ pc' = [pc EXCEPT ![p] = "fetch_yield"]
            /\ UNCHANGED exit
    /\ UNCHANGED <<store, today, env, now, existing_data, bond_yield, dirty,
                   storeAtStart, loaded, second, prevStore>>
    /\ UNCHANGED <<recording, runDates, yieldVars, metricVars>>

\* bond_yield = self.get_bond_yield()
FetchYield(p) ==
    /\ pc[p] = "fetch_yield"
    /\ \E net \in NetOutcomes :
          /\ bond_yield' =
                [bond_yield EXCEPT
                    ![p] = get_bond_yield(ShippedSources(net)).value]
          /\ calls' = [calls EXCEPT ![p].yield = @ + 1, ![p].net = net]
    /\ pc' = [pc EXCEPT ![p] = "compute"]
    /\ UNCHANGED <<store, today, env, now, existing_data, nikkei_data, dirty,
                   exit, storeAtStart, loaded, second, prevStore>>
    /\ UNCHANGED <<recording, runDates, yieldVars, metricVars>>

\* a variant of the insertion that puts the new entry in front of what the
\* file holds now instead of what this run loaded
Inserted_Reread(p) ==
    <<NewEntry(now[p], nikkei_data[p], bond_yield[p], existing_data[p].items)>>
    \o load_existing_data(store).items

\* a variant of the insertion that puts the new entry after what was loaded,
\* existing_data.append(new_entry)
Inserted_Appends(p) ==
    existing_data[p].items
    \o <<NewEntry(now[p], nikkei_data[p], bond_yield[p], existing_data[p].items)>>

\* existing_data.insert(0, new_entry): the new entry, then what was loaded
Inserted(p) ==
    <<NewEntry(now[p], nikkei_data[p], bond_yield[p], existing_data[p].items)>>
    \o existing_data[p].items

\* metrics, new_entry, change, existing_data.insert(0, new_entry),
\* existing_data = existing_data[:60].  calculate_metrics raises on a price
\* of 0, and the empty object has no insert(); nothing catches either.
ComputeAndAppend(p) ==
    /\ pc[p] = "compute"
    /\ IF MetricsRaise(nikkei_data[p].price) \/ existing_data[p].kind # "list"
       THEN /\ pc' = [pc EXCEPT ![p] = "crashed"]
            /\ exit' = [exit EXCEPT ![p] = "crashed"]
            /\ UNCHANGED existing_data
       ELSE /\ existing_data' =
                [existing_data EXCEPT ![p] =
                    ListDoc(Truncate(Inserted(p)))]
            /\ pc' = [pc EXCEPT ![p] = "open"]
            /\ UNCHANGED exit
    /\ UNCHANGED <<store, today, env, now, nikkei_data, bond_yield, dirty,
                   storeAtStart, loaded, calls, second, prevStore>>
    /\ UNCHANGED <<recording, runDates, yieldVars, metricVars>>

\* save_data: open(self.data_file, 'w').  If it raises, the error is printed
\* and the file is as it was; if not, the file is now empty.
OpenForWrite(p) ==
    /\ pc[p] = "open"
    /\ calls' = [calls EXCEPT ![p].open = @ + 1]
    /\ dirty' = [dirty EXCEPT ![p] = FALSE]
    /\ IF env[p].write = "fail_open"
       THEN /\ pc' = [pc EXCEPT ![p] = "done"]
            /\ exit' = [exit EXCEPT ![p] = "save_failed"]
            /\ UNCHANGED store
       ELSE /\ pc' = [pc EXCEPT ![p] = "dump"]
            /\ store' = CorruptDoc
            /\ UNCHANGED exit
    /\ UNCHANGED <<today, env, now, existing_data, nikkei_data, bond_yield,
                   storeAtStart, loaded, second, prevStore>>
    /\ UNCHANGED <<recording, runDates, yieldVars, metricVars>>

\* What the file holds once this writer has written: its document, or, when
\* another writer wrote to the file while this one had it open, possibly a
\* mixture of the two that does not parse.
DumpResults(p) ==
    {existing_data[p]} \cup (IF dirty[p] THEN {CorruptDoc} ELSE {})

\* What the file holds when the write raises part way: a part of the document,
\* or, when no byte was written, what another writer left there.
FailedDumpResults(p) ==
    {CorruptDoc} \cup (IF dirty[p] THEN {store} ELSE {})

\* save_data: json.dump(data, f) and the close of the file.  If either
\* raises, the error is printed.
Dump(p) ==
    /\ pc[p] = "dump"
    /\ calls' = [calls EXCEPT ![p].dump = @ + 1]
    /\ dirty' = [q \in Procs |-> IF q # p /\ pc[q] = "dump" THEN TRUE ELSE dirty[q]]
    /\ pc' = [pc EXCEPT ![p] = "done"]
    /\ IF env[p].write = "fail_dump"
       THEN /\ store' \in FailedDumpResults(p)
            /\ exit' = [exit EXCEPT ![p] = "save_failed"]
       ELSE /\ store' \in DumpResults(p)
            /\ exit' = [exit EXCEPT ![p] = "saved"]
    /\ runDates' = IF recording /\ env[p].write # "fail_dump"
                   THEN <<now[p]>> \o runDates ELSE runDates
    /\ UNCHANGED <<today, env, now, existing_data, nikkei_data, bond_yield,
                   storeAtStart, loaded, second, prevStore>>
    /\ UNCHANGED <<recording, yieldVars, metricVars>>

\* One step of the run of p.
Step(p) ==
    \/ EnsureDir(p)
    \/ CheckBusinessDay(p)
    \/ Load(p)
    \/ CheckAlreadyUpdated(p)
    \/ FetchQuote(p)
    \/ FetchYield(p)
    \/ ComputeAndAppend(p)
    \/ OpenForWrite(p)
    \/ Dump(p)

\* The locals of every process as they are before a run.
ProcReset ==
    /\ pc' = [p \in Procs |-> "idle"]
    /\ env' = [p \in Procs |-> Env("ok", QuoteRaises, "ok")]
    /\ now' = [p \in Procs |-> NoKey]
    /\ existing_data' = [p \in Procs |-> ListDoc(<<>>)]
    /\ nikkei_data' = [p \in Procs |-> NoQuote]
    /\ bond_yield' = [p \in Procs |-> NoKey]
    /\ dirty' = [p \in Procs |-> FALSE]
    /\ exit' = [p \in Procs |-> "none"]
    /\ storeAtStart' = [p \in Procs |-> AbsentDoc]
    /\ loaded' = [p \in Procs |-> ListDoc(<<>>)]
    /\ calls' = [p \in Procs |-> NoCalls]

\* The calendar moves to day d while no run is in progress; the processes of
\* the runs that ended are gone.
Tick(d) ==
    /\ \A p \in Procs : ~Running(p)
    /\ d # today
    /\ today' = d
    /\ ProcReset
    /\ second' = FALSE
    /\ prevStore' = AbsentDoc
    /\ UNCHANGED <<store, recording, runDates, yieldVars, metricVars>>

(***************************************************************************)
(* Spec: runs one after the other (the external scheduler serializes them) *)
(* on any dates of the window, with any responses.                         *)
(***************************************************************************)
Next ==
    \/ \E e \in Envs(today) : Start(1, e)
    \/ Restart(1)
    \/ Step(1)
    \/ \E d \in Days : Tick(d)

Spec == Init /\ [][Next]_vars

(***************************************************************************)
(* RetentionSpec: from an absent store, one run on every day of a longer   *)
(* window, each with a quote available and a store that can be written.    *)
(***************************************************************************)
RetInit ==
    /\ store = AbsentDoc
    /\ today = FirstDay
    /\ ProcInit
    /\ second = FALSE
    /\ prevStore = AbsentDoc
    /\ runDates = <<>>
    /\ recording = TRUE
    /\ yres = YieldResult(NoKey, 0, 0)
    /\ mprice = NoKey
    /\ mres = NoMetrics
    /\ srcOut = ShippedSources([kind |-> "response", status |-> HTTP_OK])

\* the quote of day d: the two good quotes alternate
RetQuote(d) == IF d % 2 = 0 THEN QuoteA(d) ELSE QuoteB(d)

RetStart ==
    /\ pc[1] = "idle"
    /\ Start(1, Env("ok", RetQuote(today), "ok"))

RetTick ==
    /\ Ended(1)
    /\ today < RetLastDay
    /\ Tick(today + 1)

RetNext ==
    \/ RetStart
    \/ Step(1)
    \/ RetTick

RetentionSpec == RetInit /\ [][RetNext]_vars

(***************************************************************************)
(* ConcSpec: two invocations of run() with nothing serializing them.       *)
(***************************************************************************)
ConcInit ==
    /\ store \in {AbsentDoc, ListDoc(<<OldEntry>>)}
    /\ today \in Days
    /\ ProcInit
    /\ GhostInit
    /\ srcOut = ShippedSources([kind |-> "response", status |-> HTTP_OK])

\* the responses tried under ConcSpec: a good quote, and a store that can be
\* written or fails part way
ConcEnvs(d) ==
    {Env("ok", q, w) : q \in GoodQuotes(d), w \in {"ok", "fail_dump"}}

\* one invocation per process and day
ConcStart(p, e) ==
    /\ pc[p] = "idle"
    /\ Start(p, e)

ConcNext ==
    \/ \E p \in Procs : \E e \in ConcEnvs(today) : ConcStart(p, e)
    \/ \E p \in Procs : Step(p)
    \/ \E d \in Days : Tick(d)

ConcSpec == ConcInit /\ [][ConcNext]_vars

(***************************************************************************)
(* YieldSpec: get_bond_yield() over every assignment of outcomes to its    *)
(* three strategies.                                                       *)
(***************************************************************************)
\* a yield a strategy may return besides 0 and the mock value (thousandths)
OtherYield == 1200

YieldOutcomes == {Raises, None, Value(0), Value(MOCK_YIELD), Value(OtherYield)}

YieldInit ==
    /\ store = AbsentDoc
    /\ today = FirstDay
    /\ ProcInit
    /\ GhostInit
    /\ srcOut \in [1 .. 3 -> YieldOutcomes]

Called == yres.invoked > 0

\* bond_yield = self.get_bond_yield(), the strategies answering srcOut
CallGetBondYield ==
    /\ ~Called
    /\ yres' = get_bond_yield(srcOut)
    /\ UNCHANGED <<coreVars, recording, runDates, srcOut, metricVars>>

\* other strategies are tried
Redraw ==
    /\ Called
    /\ yres' = YieldResult(NoKey, 0, 0)
    /\ srcOut' \in [1 .. 3 -> YieldOutcomes]
    /\ UNCHANGED <<coreVars, recording, runDates, metricVars>>

YieldNext ==
    \/ CallGetBondYield
    \/ Redraw

YieldSpec == YieldInit /\ [][YieldNext]_vars

(***************************************************************************)
(* MonotoneSpec: from an absent store, serialized runs with any responses, *)
(* the calendar never going back.                                          *)
(***************************************************************************)
MonoInit ==
    /\ store = AbsentDoc
    /\ today \in Days
    /\ ProcInit
    /\ GhostInit
    /\ srcOut = ShippedSources([kind |-> "response", status |-> HTTP_OK])

\* the calendar moves forward to day d
MonoTick(d) ==
    /\ d > today
    /\ Tick(d)

MonoNext ==
    \/ \E e \in Envs(today) : Start(1, e)
    \/ Restart(1)
    \/ Step(1)
    \/ \E d \in Days : MonoTick(d)

MonotoneSpec == MonoInit /\ [][MonoNext]_vars

(***************************************************************************)
(* MetricsSpec: calculate_metrics() over a range of positive prices.       *)
(***************************************************************************)
\* the number of prices tried besides 40000.00
MaxPriceSteps == 80

\* the prices tried (hundredths): 40000.00, and from 1.00 up in steps of
\* 617.33
MetricPrices == {4000000} \cup {100 + 61733 * k : k \in 0 .. MaxPriceSteps}

MetricsInit ==
    /\ store = AbsentDoc
    /\ today = FirstDay
    /\ ProcInit
    /\ second = FALSE
    /\ prevStore = AbsentDoc
    /\ runDates = <<>>
    /\ recording = FALSE
    /\ yres = YieldResult(NoKey, 0, 0)
    /\ srcOut = ShippedSources([kind |-> "response", status |-> HTTP_OK])
    /\ mprice \in MetricPrices
    /\ mres = NoMetrics

Computed == mres # NoMetrics

\* metrics = self.calculate_metrics(price)
CallCalculateMetrics ==
    /\ ~Computed
    /\ mres' = calculate_metrics(mprice)
    /\ UNCHANGED <<coreVars, recording, runDates, yieldVars, mprice>>

\* another price is tried
NextPrice ==
    /\ Computed
    /\ mres' = NoMetrics
    /\ mprice' \in MetricPrices
    /\ UNCHANGED <<coreVars, recording, runDates, yieldVars>>

MetricsNext ==
    \/ CallCalculateMetrics
    \/ NextPrice

MetricsSpec == MetricsInit /\ [][MetricsNext]_vars

(***************************************************************************)
(* Properties.                                                             *)
(***************************************************************************)
UniqueDates(items) ==
    \A i, j \in 1 .. Len(items) : i # j => items[i].date # items[j].date

FirstN(seq, n) == IF Len(seq) > n THEN SubSeq(seq, 1, n) ELSE seq

\* day d is a Saturday (weekday 5) or a Sunday (weekday 6)
Weekend(d) == d % 7 \in {5, 6}

NoNetwork(p) == calls[p].quote = 0 /\ calls[p].yield = 0

NoWrite(p) == calls[p].open = 0 /\ calls[p].dump = 0

\* C1 (Spec).  Idempotence: when run() has been run a second time in
\* succession, on the same date and with the collaborators answering as in the
\* first run, the store document after the second run is the store document
\* after the first.
Idempotent ==
    (Ended(1) /\ second) => store = prevStore

\* C1: a first run saved today's entry in front of an older one, and the
\* second run has ended on finding it.
Idempotent_Witness ==
    /\ Ended(1) /\ second
    /\ exit[1] = "already"
    /\ env[1].write = "ok"
    /\ store.kind = "list" /\ Len(store.items) >= 2
    /\ store.items[1].date = today
    /\ store.items[1].price = get_nikkei_price(env[1].quote).price

\* C2 (RetentionSpec).  Retention: after every one of the successful daily
\* runs the stored history has at most 60 entries, and its dates are the
\* (at most) 60 most recent run dates, newest first; so once more than 60 runs
\* succeeded they are exactly the 60 most recent run dates.
Retention ==
    /\ Len(store.items) <= RETENTION
    /\ ~Running(1) =>
          /\ Dates(store.items) = FirstN(runDates, RETENTION)
          /\ Len(runDates) > RETENTION => Len(store.items) = RETENTION

\* C2: more than 60 runs have succeeded, the last of them just now.
Retention_Witness ==
    /\ Len(runDates) > RETENTION
    /\ exit[1] = "saved"
    /\ store.kind = "list"
    /\ store.items[1].date = today

\* C3 (Spec).  Date uniqueness: after any sequence of serialized runs, on
\* any dates and with any responses, no two entries of the stored history
\* have the same date.
DateUnique ==
    store.kind = "list" => UniqueDates(store.items)

\* C3: the calendar went back, and a run put an earlier date in front of a
\* later one that an earlier run had stored.
DateUnique_Witness ==
    /\ store.kind = "list" /\ Len(store.items) >= 2
    /\ store.items[1].date < store.items[2].date
    /\ exit[1] = "saved"

\* the strategies that return a number, 0 included
Numeric == {i \in 1 .. Len(srcOut) : srcOut[i].kind = "value"}
FirstNumeric == CHOOSE i \in Numeric : \A j \in Numeric : i <= j

\* C4 (YieldSpec).  First success wins: the result of get_bond_yield() is
\* the value of the first strategy, in list order, that returns a number (0
\* included), and no later strategy is called.
FirstSuccessWins ==
    (Called /\ Numeric # {}) =>
        /\ yres.value = srcOut[FirstNumeric].value
        /\ yres.invoked = FirstNumeric

\* the strategies that give no result: they raise or return None
NoResult(i) == srcOut[i].kind \in {"raise", "none"}

\* C5 (YieldSpec).  get_bond_yield() never fails: no exception leaves it and
\* it returns a number; a strategy that raises is passed over for the next
\* one; when source 1 raises and source 2 returns None the result is what
\* source 3, the shipped fallback, returns (1.485); when no strategy gives a
\* result the result is 1.5.
NeverFails ==
    Called =>
        /\ ~yres.raised
        /\ yres.value \in Nat
        /\ \A i \in 1 .. Len(srcOut) :
              (srcOut[i].kind = "raise" /\ yres.invoked >= i) =>
                  (yres.invoked > i \/ i = Len(srcOut))
        /\ (srcOut[1] = Raises /\ srcOut[2] = None
                /\ srcOut[3] = get_yield_fallback) => yres.value = MOCK_YIELD
        /\ (\A i \in 1 .. Len(srcOut) : NoResult(i)) =>
              yres.value = FALLBACK_YIELD

\* C5: source 1 raised, source 2 returned None, source 3 returned 1.485, and
\* get_bond_yield() has returned.
NeverFails_Witness ==
    /\ Called
    /\ srcOut = <<Raises, None, get_yield_fallback>>
    /\ yres.won = 3

\* C6 (Spec).  Non-business-day short-circuit: a run on a Saturday or a
\* Sunday leaves the store document as it was, calls neither the quote
\* provider nor a yield source, and never reaches the load.
NonBusinessDayNoop ==
    \A p \in Procs :
        (pc[p] # "idle" /\ Weekend(today)) =>
            /\ store = storeAtStart[p]
            /\ NoNetwork(p) /\ NoWrite(p)
            /\ pc[p] \in {"ensure_dir", "check_day", "done", "crashed"}

\* C6: a run on a weekend day has ended, over a store that holds entries.
NonBusinessDayNoop_Witness ==
    /\ exit[1] = "non_business"
    /\ Weekend(now[1])
    /\ store.kind = "list" /\ store.items # <<>>

\* C7 (Spec).  Persistence failure: when the write of save_data() fails, the
\* run ends without crashing and the store document is as it was before the
\* run.
SaveFailureKeepsStore ==
    \A p \in Procs :
        exit[p] = "save_failed" => (pc[p] = "done" /\ store = storeAtStart[p])

\* C8 (Spec).  Nothing is fatal: whatever the stages of run() meet, no run
\* ends with an uncaught error.
NothingFatal ==
    \A p \in Procs : pc[p] # "crashed"

\* C9 (Spec).  Quote unavailable: when the provider raises or returns no
\* rows, get_nikkei_price() returns None, and the run ends at once: the store
\* document is as it was, no yield source was called and nothing was written.
QuoteUnavailableNoop ==
    \A p \in Procs :
        (calls[p].quote > 0 /\ env[p].quote.kind \in {"raise", "empty"}) =>
            /\ nikkei_data[p] = NoQuote
            /\ pc[p] = "done" /\ exit[p] = "no_quote"
            /\ store = storeAtStart[p]
            /\ calls[p].yield = 0 /\ NoWrite(p)

\* C9: the provider raised on a business day, over a store that holds entries.
QuoteUnavailableNoop_Witness ==
    /\ calls[1].quote > 0
    /\ env[1].quote.kind = "raise"
    /\ exit[1] = "no_quote"
    /\ store.kind = "list" /\ store.items # <<>>

\* Both invocations passed the already-updated check on the same day and both
\* wrote the store.
Raced ==
    /\ exit[1] = "saved" /\ exit[2] = "saved"
    /\ now[1] = now[2]
    /\ ~HasDate(loaded[1].items, now[1])
    /\ ~HasDate(loaded[2].items, now[2])

EntriesDated(d) == {i \in 1 .. Len(store.items) : store.items[i].date = d}

\* C10 as claimed (ConcSpec).  Unserialized double append: once the two
\* invocations have raced, the stored history holds two entries dated today.
RaceDoubleAppends ==
    Raced => Cardinality(EntriesDated(today)) >= 2

\* C10 as amended (ConcSpec).  Two unserialized invocations never leave two
\* entries of one date in the stored history: each writes the history it
\* loaded plus its own entry, over the whole document.
NoDoubleAppend ==
    \A d \in Days : Cardinality(EntriesDated(d)) <= 1

\* C10: the two invocations raced, and the store holds the entry of one of
\* them only.
NoDoubleAppend_Witness ==
    /\ Raced
    /\ store.kind = "list"
    /\ Cardinality(EntriesDated(today)) = 1
    /\ nikkei_data[1].price # nikkei_data[2].price

Abs(x) == IF x < 0 THEN 0 - x ELSE x

\* r * p - 100 * n, computed so that no intermediate value leaves the 32-bit
\* integers
ScaledDiff(r, p, n) == 100 * (r * (p \div 100) - n) + r * (p % 100)

\* C11 (MetricsSpec).  Metrics computation: for a positive price, per is
\* price / eps, pbr is price / bps, yield_rate is 100 * eps / price and
\* dividend_yield is 100 * dividend / price, each to the nearest hundredth
\* (within half a hundredth of the exact quotient); eps and bps pass through;
\* and for 40000.00 the results are 16.00, 1.45, 6.25 and 2.25.
MetricsCorrect ==
    Computed =>
        /\ 2 * Abs(mres.per * EPS - mprice) <= EPS
        /\ 2 * Abs(mres.pbr * BPS - mprice) <= BPS
        /\ 2 * Abs(ScaledDiff(mres.yield_rate, mprice, 10000 * EPS)) <= mprice
        /\ 2 * Abs(ScaledDiff(mres.dividend_yield, mprice, 10000 * DIVIDEND))
              <= mprice
        /\ mres.eps = EPS /\ mres.bps = BPS
        /\ mprice = 4000000 =>
              /\ mres.per = 1600 /\ mres.pbr = 145
              /\ mres.yield_rate = 625 /\ mres.dividend_yield = 225

\* C11: calculate_metrics(40000.00) has returned.
MetricsCorrect_Witness ==
    /\ Computed
    /\ mprice = 4000000
    /\ mres.pbr = 145

\* The calls of the run of p respect the order of the stages: the quote
\* provider only after both checks passed, the yield sources only after a
\* quote was obtained, the store written at most once and only after both
\* fetches.
StagesInOrder(p) ==
    /\ calls[p].quote > 0 =>
          /\ ~Weekend(now[p])
          /\ ~(\E i \in 1 .. Len(loaded[p].items) : loaded[p].items[i].date = now[p])
    /\ calls[p].yield > 0 => (calls[p].quote = 1 /\ nikkei_data[p] # NoQuote)
    /\ calls[p].open > 0 => (calls[p].quote = 1 /\ calls[p].yield = 1)
    /\ calls[p].open <= 1 /\ calls[p].dump <= calls[p].open

\* A run of p that ended without reaching the write ended at one of the three
\* early exits.
OnlyThreeEarlyExits(p) ==
    (Ended(p) /\ calls[p].open = 0) =>
        exit[p] \in {"non_business", "already", "no_quote"}

\* C12 (Spec).  Stage ordering: in every run the stages come in the order
\* business-day check, load and already-updated check, quote fetch, yield
\* fetch, compute-and-append, persist, and a run ends before the write only
\* on a non-business day, on finding today's date, or without a quote.
StageOrder ==
    \A p \in Procs : StagesInOrder(p) /\ OnlyThreeEarlyExits(p)

\* the ordering part of C12 alone
StageOrderOfCalls ==
    \A p \in Procs : StagesInOrder(p)

\* The run of p has put its new entry at the head of existing_data.
Appended(p) ==
    pc[p] \in {"open", "dump"} \/ exit[p] \in {"saved", "save_failed"}

\* C13 (Spec).  Change computation: the change of the appended entry is the
\* fetched price minus the price of the entry at the head of the loaded
\* history, and 0 when the loaded history is empty; 39500.00 followed by
\* 40000.00 gives +500.00.
ChangeComputed ==
    /\ \A p \in Procs :
          Appended(p) =>
              LET new == existing_data[p].items[1]
                  old == loaded[p].items
              IN  /\ new.price = nikkei_data[p].price
                  /\ old = <<>> => new.change = 0
                  /\ (old # <<>> /\ old[1].price # NoKey) =>
                        new.change = nikkei_data[p].price - old[1].price
    /\ Change(<<[OldEntry EXCEPT !.price = 3950000]>>, 4000000) = 50000

\* C13: a run that loaded a history headed by 39500.00 fetched 40000.12 and
\* appended an entry with change +500.12.
ChangeComputed_Witness ==
    /\ Appended(1)
    /\ Len(loaded[1].items) >= 1
    /\ loaded[1].items[1].price = 3950000
    /\ nikkei_data[1].price = 4000012
    /\ existing_data[1].items[1].change = 50012

\* C14 (Spec).  Zero-or-one prepend: after a run that loaded the history H,
\* the store document is as it was before the run, or it is the first 60
\* elements of one new entry, dated today, followed by H.
ZeroOrOnePrepend ==
    \A p \in Procs :
        Ended(p) =>
            \/ store = storeAtStart[p]
            \/ /\ store.kind = "list" /\ store.items # <<>>
               /\ store.items[1].date = now[p]
               /\ store.items =
                      FirstN(<<store.items[1]>> \o loaded[p].items, RETENTION)

\* C15 (MonotoneSpec).  Newest-first ordering: from an absent store and with
\* run dates that never decrease, the dates of the stored history strictly
\* decrease from the head to the tail.
NewestFirst ==
    \A i, j \in 1 .. Len(store.items) :
        i < j => store.items[i].date > store.items[j].date

\* C15: two runs on successive business days have saved their entries.
NewestFirst_Witness ==
    /\ store.kind = "list" /\ Len(store.items) >= 2
    /\ store.items[1].date = today
    /\ exit[1] = "saved"

\* C16 (Spec).  With the three shipped strategies get_bond_yield() returns
\* 1.485 whatever the request did (200, another status, an exception), never
\* the final fallback 1.5, and every entry a run appends has bond_yield 1.485.
ShippedYieldIsMock ==
    /\ \A p \in Procs :
          /\ calls[p].yield > 0 =>
                (bond_yield[p] = MOCK_YIELD /\ bond_yield[p] # FALLBACK_YIELD)
          /\ Appended(p) => existing_data[p].items[1].bond_yield = MOCK_YIELD
    /\ \A net \in NetOutcomes : get_bond_yield(ShippedSources(net)).won # 0
    /\ store.kind = "list" =>
          \A i \in 1 .. Len(store.items) :
              store.items[i].date \in Days =>
                  store.items[i].bond_yield = MOCK_YIELD

\* C16: the request raised an exception, and the run saved an entry with
\* bond_yield 1.485.
ShippedYieldIsMock_Witness ==
    /\ exit[1] = "saved"
    /\ calls[1].net.kind = "exception"
    /\ store.kind = "list"
    /\ store.items[1].date = now[1]
    /\ store.items[1].bond_yield = MOCK_YIELD

\* C17 (Spec).  The entry a run appends is dated with the run's local
\* calendar date, whatever the date of the quote record, and carries that
\* record's price and volume.
EntryDatedToday ==
    \A p \in Procs :
        Appended(p) =>
            LET new == existing_data[p].items[1]
            IN  /\ new.date = now[p]
                /\ exit[p] = "saved" => new.date = today
                /\ new.price = nikkei_data[p].price
                /\ new.volume = nikkei_data[p].volume

\* C17: on a weekday the provider's last record was of the day before, and
\* the run saved an entry dated today with that record's price and volume.
EntryDatedToday_Witness ==
    /\ exit[1] = "saved"
    /\ nikkei_data[1].date = today - 1
    /\ store.kind = "list"
    /\ store.items[1].date = today
    /\ store.items[1].price = nikkei_data[1].price
    /\ store.items[1].volume = nikkei_data[1].volume

\* C18 (Spec).  An unreadable store: when the document exists and does not
\* parse at load, the history is taken as empty, and a run on a business day
\* with the directory in place, a quote of a positive price and a write that
\* succeeds ends with the store holding exactly one entry, today's, with
\* change 0.
CorruptStoreOverwritten ==
    \A p \in Procs :
        (/\ storeAtStart[p].kind = "corrupt"
         /\ pc[p] \notin {"idle", "ensure_dir", "check_day", "load"}
         /\ env[p].mkdir = "ok"
         /\ ~Weekend(today))
        => /\ loaded[p] = ListDoc(<<>>)
           /\ (/\ Ended(p)
               /\ get_nikkei_price(env[p].quote) # NoQuote
               /\ get_nikkei_price(env[p].quote).price > 0
               /\ env[p].write = "ok")
              => /\ exit[p] = "saved"
                 /\ store.kind = "list" /\ Len(store.items) = 1
                 /\ store.items[1].date = today
                 /\ store.items[1].change = 0

\* C18: a run that found an unparsable document has saved its one entry.
CorruptStoreOverwritten_Witness ==
    /\ storeAtStart[1].kind = "corrupt"
    /\ exit[1] = "saved"
    /\ store.kind = "list" /\ Len(store.items) = 1
    /\ store.items[1].change = 0

====
